---- MODULE Spec2Model ----
(***************************************************************************)
(* Asynchronous server-side rendering core of                              *)
(* packages/solid/src/static/rendering.ts: hydration contexts and ids,     *)
(* createResource, lazy, Suspense and the awaitSuspense driver.            *)
(*                                                                         *)
(* Strings are sequences of one-character strings, so that ids, placeholder *)
(* tokens and the substitution pass are computed character by character.   *)
(***************************************************************************)
EXTENDS Integers, Sequences, FiniteSets, TLC

VARIABLES
  tree,          \* the render thunk handed to awaitSuspense (a list of nodes)
  flags,         \* async / streaming / writeResource of the hydration context
  phase,         \* "idle" before awaitSuspense(fn)() is called, then "rendered"
  sharedConfig,  \* sharedConfig.context: the active context [id, count]
  resources,     \* ctx.resources: resource id -> resolved value
  suspense,      \* ctx.suspense: boundary id -> SuspenseContextValue
  insts,         \* createResource instances: their `contexts` set and `value`
  promises,      \* pending producer promises with a completion handler attached
  lazyState,     \* the lazy loader instance: resolved, contexts, handlers
  registry,      \* awaitSuspense: registry
  cache,         \* awaitSuspense: cache
  micro,         \* substitution passes queued by queueMicrotask
  res,           \* awaitSuspense: the memo holding the root render
  driver,        \* the promise returned by awaitSuspense(fn)()
  hist,          \* observations of what the operations did (history only)
  callers,       \* createComponent activations: the saved caller contexts `c`
  spawned,       \* child contexts produced by nextHydrateContext, in order
  other          \* a second awaitSuspense render in flight in the same process

vars == <<tree, flags, phase, sharedConfig, resources, suspense, insts, promises,
          lazyState, registry, cache, micro, res, driver, hist, callers, spawned, other>>

----------------------------------------------------------------------------
(* Bounds of the model *)

\* longest root string, in segments (a character or a token), of the substitution inputs
MaxRootSegs == 3
\* longest cached fragment, in segments, of the substitution inputs
MaxFragSegs == 2
\* deepest nesting of createComponent activations in the context machine
MaxDepth == 1
\* number of child contexts spawned in the context machine
MaxSpawns == 2
\* largest value a context's counter reaches in the context machine
MaxCount == 11

----------------------------------------------------------------------------
(* Strings *)

DigitChar == <<"0", "1", "2", "3", "4", "5", "6", "7", "8", "9">>

IdChars == {"0", "1", "2", "3", "4", "5", "6", "7", "8", "9", "."}

RECURSIVE Digits(_)
\* String(n) of a non-negative counter, as in the template literals building ids
Digits(n) ==
  IF n < 10 THEN <<DigitChar[n + 1]>>
  ELSE Digits(n \div 10) \o <<DigitChar[(n % 10) + 1]>>

\* `<#${id}#>`
Token(id) == <<"<", "#">> \o id \o <<"#", ">">>

\* what string concatenation makes of a missing cache entry
Undefined == <<"u", "n", "d", "e", "f", "i", "n", "e", "d">>

IsPrefix(a, b) == Len(a) <= Len(b) /\ SubSeq(b, 1, Len(a)) = a

\* first index >= i of s holding a character outside [0-9.], or Len(s) + 1
IdEnd(s, i) ==
  LET stops == {j \in i..Len(s) : s[j] \notin IdChars}
  IN  IF stops = {} THEN Len(s) + 1
      ELSE CHOOSE j \in stops : \A k \in stops : j <= k

\* SUSPENSE_REPLACE matches at position i of s
MatchesAt(s, i) ==
  /\ i + 4 <= Len(s)
  /\ s[i] = "<"
  /\ s[i + 1] = "#"
  /\ LET j == IdEnd(s, i + 2)
     IN  /\ j > i + 2
         /\ j + 1 <= Len(s)
         /\ s[j] = "#"
         /\ s[j + 1] = ">"

\* source.match(SUSPENSE_REPLACE): the leftmost match as [index, id, last],
\* index 0 when there is none
SUSPENSE_REPLACE(s) ==
  LET hits == {i \in 1..Len(s) : MatchesAt(s, i)}
  IN  IF hits = {} THEN [index |-> 0, id |-> <<>>, last |-> 0]
      ELSE LET i == CHOOSE h \in hits : \A k \in hits : h <= k
               j == IdEnd(s, i + 2)
           IN  [index |-> i, id |-> SubSeq(s, i + 2, j - 1), last |-> j + 1]

HasToken(s) == SUSPENSE_REPLACE(s).index # 0

\* cache[match[1]] || "": a missing entry concatenates as the empty string
CacheFragmentOrEmpty(c, id) == IF id \in DOMAIN c THEN c[id] ELSE <<>>

\* cache[match[1]] + ... : a missing entry concatenates as "undefined"
CacheFragment(c, id) == IF id \in DOMAIN c THEN c[id] ELSE Undefined

RECURSIVE SubstLoopNoRescan(_, _, _)
\* a substitution loop that moves the fragment to the output unscanned
SubstLoopNoRescan(final, source, c) ==
  LET m == SUSPENSE_REPLACE(source)
  IN  IF m.index = 0 THEN final \o source
      ELSE SubstLoopNoRescan(final \o SubSeq(source, 1, m.index - 1) \o CacheFragment(c, m.id),
                             SubSeq(source, m.last + 1, Len(source)), c)

RECURSIVE SubstLoop(_, _, _)
\* the while loop of the substitution pass; its value is final + source
SubstLoop(final, source, c) ==
  LET m == SUSPENSE_REPLACE(source)
  IN  IF m.index = 0 THEN final \o source
      ELSE SubstLoop(final \o SubSeq(source, 1, m.index - 1),
                     CacheFragment(c, m.id) \o SubSeq(source, m.last + 1, Len(source)), c)

RECURSIVE SubstMisses(_, _)
\* whether the loop, run on source, looks up an id that has no cache entry
SubstMisses(source, c) ==
  LET m == SUSPENSE_REPLACE(source)
  IN  IF m.index = 0 THEN FALSE
      ELSE \/ m.id \notin DOMAIN c
           \/ SubstMisses(CacheFragment(c, m.id) \o SubSeq(source, m.last + 1, Len(source)), c)

----------------------------------------------------------------------------
(* Render thunks: the component trees handed to awaitSuspense *)

\* a literal piece of markup
Text(c) == [k |-> "text", out |-> <<c>>, kids |-> <<>>, imm |-> FALSE, order |-> "-"]

\* createResource(); load(producer); read(): the producer yields a promise of v
Res(v) == [k |-> "res", out |-> v, kids |-> <<>>, imm |-> FALSE, order |-> "load-read"]

\* the same with a producer returning the (non-promise) value v at once
ResNow(v, o) == [k |-> "res", out |-> v, kids |-> <<>>, imm |-> TRUE, order |-> o]

\* createResource(); load(producer); load(producer); read(): two loads on one instance
Res2(v) == [k |-> "res", out |-> v, kids |-> <<>>, imm |-> FALSE, order |-> "load-load-read"]

\* a call site of the lazy component; the loaded component renders v
Lazy(v) == [k |-> "lazy", out |-> v, kids |-> <<>>, imm |-> FALSE, order |-> "-"]

\* createComponent(Comp, props) of a plain component rendering kids
Comp(kids) == [k |-> "comp", out |-> <<>>, kids |-> kids, imm |-> FALSE, order |-> "-"]

\* createComponent(Suspense, {fallback: "f", children: kids})
Susp(kids) == [k |-> "susp", out |-> <<"f">>, kids |-> kids, imm |-> FALSE, order |-> "-"]

Trees ==
  { <<Text("a")>>,
    <<Res(<<"x">>)>>,
    <<Susp(<<Res(<<"x">>)>>)>>,
    <<Susp(<<Res(<<"x">>)>>), Text("a"), Susp(<<Res(<<"y">>)>>)>>,
    <<Susp(<<Text("a")>>), Susp(<<Res(<<"x">>)>>)>>,
    <<Susp(<<Res(<<>>)>>), Susp(<<Res(<<"y">>)>>)>>,
    <<Susp(<<Res(<<"x">>), Res(<<"y">>)>>)>>,
    <<Susp(<<Res(<<"x">>), Susp(<<Res(<<"y">>)>>)>>)>>,
    <<Susp(<<Res(<<"x">>), Susp(<<Res(<<"y">>), Res(<<"z">>)>>)>>)>>,
    <<Susp(<<Comp(<<Res(<<"x">>), Text("a")>>), Res(<<"y">>)>>), Susp(<<Res(<<"z">>)>>)>>,
    <<Susp(<<ResNow(<<"x">>, "load-read")>>)>>,
    <<Susp(<<ResNow(<<"x">>, "read-load")>>)>>,
    <<Susp(<<Lazy(<<"c">>)>>)>>,
    <<Susp(<<Lazy(<<"c">>), Lazy(<<"d">>)>>)>>,
    <<Lazy(<<"c">>), Susp(<<Res(<<"x">>), Lazy(<<"d">>)>>)>>,
    <<Susp(<<Res2(<<"x">>)>>)>>,
    <<Susp(<<Res2(<<"x">>), Res(<<"y">>)>>)>> }

RECURSIVE UsesLazy(_)
UsesLazy(ns) ==
  \E i \in 1..Len(ns) : ns[i].k = "lazy" \/ UsesLazy(ns[i].kids)

RECURSIVE FullRender(_)
\* the markup of a list of nodes once every resource and lazy load has resolved
FullRender(ns) ==
  IF ns = <<>> THEN <<>>
  ELSE LET n == Head(ns)
       IN  (IF n.k \in {"comp", "susp"} THEN FullRender(n.kids) ELSE n.out)
             \o FullRender(Tail(ns))

----------------------------------------------------------------------------
(* Maps keyed by ids *)

EmptyMap == [x \in {} |-> <<>>]

Put(f, key, v) == [x \in (DOMAIN f) \cup {key} |-> IF x = key THEN v ELSE f[x]]

\* Set.add on an insertion-ordered set
SetAdd(q, x) == IF \E i \in 1..Len(q) : q[i] = x THEN q ELSE Append(q, x)

\* useContext(SuspenseContext) when no boundary encloses the caller
NoBoundary == <<>>

\* e, evaluated once the statements that produced state s have run
After(s, e) == IF s.micro >= 0 THEN e ELSE s

----------------------------------------------------------------------------
(* Hydration context *)

\* a child context whose id lacks the closing dot
nextHydrateContextNoDot(c) ==
  [child  |-> [c EXCEPT !.id = c.id \o Digits(c.count), !.count = 0],
   parent |-> [c EXCEPT !.count = @ + 1]]

\* nextHydrateContext() with c active: the child context, and c after count++
nextHydrateContext(c) ==
  [child  |-> [c EXCEPT !.id = c.id \o Digits(c.count) \o <<".">>, !.count = 0],
   parent |-> [c EXCEPT !.count = @ + 1]]

\* the context of a run that starts from whichever context is active
SuspenseRunContextActive(ctx, active) == [active EXCEPT !.count = 0]

\* runSuspense's { ...ctx, count: 0 }: ctx is the boundary's captured context
SuspenseRunContext(ctx, active) == [ctx EXCEPT !.count = 0]

\* createComponent's setHydrateContext(nextHydrateContext()), noting the id
EnterComponent(s) ==
  LET n == nextHydrateContext(s.ctx)
  IN  [s EXCEPT !.ctx = n.child, !.hist.trace = Append(@, n.child.id)]

\* the caller's context object as createComponent saved it in `c`
CallerContext(s) == nextHydrateContext(s.ctx).parent

----------------------------------------------------------------------------
(* awaitSuspense: the callback provider *)

\* getCallback(key): registers the boundary with the driver
getCallback(key, s) == [s EXCEPT !.registry = @ \cup {key}]

\* the callback getCallback(key) returned, called with value ("" for done())
done(key, value, s) ==
  LET v  == s.suspense[key]
      s1 == [s EXCEPT !.cache = IF value # <<>> THEN Put(@, key, value) ELSE @,
                      !.registry = @ \ {key},
                      !.hist.done = Put(@, key, IF key \in DOMAIN @ THEN @[key] + 1 ELSE 1),
                      !.hist.doneFanIn = @ /\ v.completedCount = Cardinality(v.resources)]
  IN  IF s1.registry = {} THEN [s1 EXCEPT !.micro = @ + 1] ELSE s1

----------------------------------------------------------------------------
(* createResource *)

\* createResource(value): allocates the id and the instance's `contexts` set
createResource(s) ==
  LET id == s.ctx.id \o Digits(s.ctx.count)
  IN  [s EXCEPT !.ctx.count = @ + 1,
                !.insts = Append(@, [contexts |-> <<>>, value |-> <<>>]),
                !.hist.trace = Append(@, id),
                !.ret = id]

\* a completion handler of the resource with this id has started
Counted(id, ps) == \E j \in 1..Len(ps) : ps[j].rid = id /\ ~ps[j].pending /\ ~ps[j].rejected

\* read() of instance inst with id, under the nearest boundary sc
read(id, inst, sc, s) ==
  LET resolved == flags.async /\ id \in DOMAIN s.resources
      s1 == IF flags.async /\ ~resolved /\ sc # NoBoundary
            THEN [s EXCEPT !.suspense[sc].resources = @ \cup {id},
                           !.insts[inst].contexts = SetAdd(@, sc),
                           !.hist.registered = @ \cup {[b |-> sc, inst |-> inst]}]
            ELSE s
  IN  IF resolved THEN [s1 EXCEPT !.ret = s.resources[id]]
      ELSE [s1 EXCEPT !.ret = s.insts[inst].value,
                      !.hist.stale = @ \cup {[b |-> sc, id |-> id]},
                      !.hist.countedStale = @ \/ (flags.async /\ Counted(id, s.promises))]

\* the producer of the resource with this id fails: its promises reject
Fails(id, ps) == \E j \in 1..Len(ps) : ps[j].rid = id /\ ps[j].rejected

\* load(fn) of instance inst with id; n.imm tells what fn() returns
load(id, inst, n, s) ==
  IF ~flags.async /\ ~flags.streaming THEN [s EXCEPT !.ret = "noop"]
  ELSE IF id \in DOMAIN s.resources
  THEN [s EXCEPT !.insts[inst].value = s.resources[id], !.ret = "noop"]
  ELSE IF ~n.imm
  THEN IF flags.writeResource
       THEN [s EXCEPT !.hist.written = @ \cup {id}, !.ret = "pending"]
       ELSE [s EXCEPT !.promises = Append(@, [rid |-> id, val |-> n.out, inst |-> inst,
                                              pending |-> ~Fails(id, @),
                                              rejected |-> Fails(id, @)]),
                      !.ret = "pending"]
  ELSE [s EXCEPT !.insts[inst].value = n.out, !.ret = "resolved"]

\* a component body: const [read, load] = createResource(); load(fn); read()
ResourceNode(n, sc, s) ==
  LET Log(t, then) ==
        [t EXCEPT !.hist.loads = @ \cup {[imm |-> n.imm, then |-> then]}]
      Body(id, inst, s1) ==
        LET ReadAfter(s2) == Log(read(id, inst, sc, s2), s2.ret)
            Keep(s2, s3)  == [Log(s3, s3.ret) EXCEPT !.ret = s2.ret]
            LoadAfter(s2) == Keep(s2, load(id, inst, n, s2))
        IN  CASE n.order = "load-read" -> ReadAfter(load(id, inst, n, s1))
              [] n.order = "read-load" -> LoadAfter(read(id, inst, sc, s1))
              [] n.order = "load-load-read" ->
                   ReadAfter(load(id, inst, n, load(id, inst, n, s1)))
      Created(s0) ==
        Body(s0.ret, Len(s0.insts),
             [s0 EXCEPT !.hist.immediate = IF n.imm THEN @ \cup {s0.ret} ELSE @])
  IN  Created(createResource(s))

----------------------------------------------------------------------------
(* lazy *)

\* a wrapper that never sees the loaded component
lazyResolvedNever(s) == FALSE

\* the wrapper's test `if (resolved)`
lazyResolved(s) == s.lazy.resolved

\* the wrapper lazy(fn) returned, called as a component with props
LazyNode(n, sc, s) ==
  LET Wrapper(s1) ==
        LET id == s1.ctx.id \o Digits(s1.ctx.count)
            s2 == [s1 EXCEPT !.ctx.count = @ + 1, !.hist.trace = Append(@, id)]
        IN  IF lazyResolved(s1) THEN [s2 EXCEPT !.ret = n.out]
            ELSE IF sc # NoBoundary
            THEN [s2 EXCEPT !.suspense[sc].resources = @ \cup {id},
                            !.lazy.contexts = SetAdd(@, sc),
                            !.lazy.handlers = @ + 1,
                            !.ret = <<>>,
                            !.hist.stale = @ \cup {[b |-> sc, id |-> id]},
                            !.hist.countedStale = @ \/ s1.hist.lazyNotified]
            ELSE [s2 EXCEPT !.lazy.handlers = @ + 1, !.ret = <<>>,
                            !.hist.countedStale = @ \/ s1.hist.lazyNotified]
      Note(id, t) ==
        [t EXCEPT !.hist.lazyCalls =
           @ \cup {[id |-> id, sc |-> sc, resolved |-> s.lazy.resolved, out |-> t.ret,
                    component |-> n.out,
                    added |-> \/ t.lazy.contexts # s.lazy.contexts
                              \/ \E b \in DOMAIN t.suspense :
                                   t.suspense[b].resources # s.suspense[b].resources,
                    holds |-> sc # NoBoundary /\ id \in t.suspense[sc].resources,
                    bound |-> sc # NoBoundary,
                    attached |-> t.lazy.handlers - s.lazy.handlers]}]
      Call(e) == Note(e.ctx.id \o Digits(e.ctx.count), Wrapper(e))
  IN  [Call(EnterComponent(s)) EXCEPT !.ctx = CallerContext(s)]

----------------------------------------------------------------------------
(* Suspense and the render pass *)

RECURSIVE RenderNode(_, _, _), RenderList(_, _, _)

\* runSuspense() of boundary b: the children under the Provider, ids from count 0
runSuspense(b, ctx, kids, s) ==
  LET s1 == [s EXCEPT !.ctx = SuspenseRunContext(ctx, s.ctx),
                      !.hist.foreign = @ \/ SuspenseRunContext(ctx, s.ctx).pass # s.self,
                      !.hist.crossed = @ \/ s.ctx.pass # s.self]
      Provider(e) == After(e, RenderList(kids, b, e))
      Log(r) ==
        LET ids == SubSeq(r.hist.trace, Len(s.hist.trace) + 1, Len(r.hist.trace))
            old == r.hist.runs
        IN  [r EXCEPT !.hist.runs =
                        Put(@, b, IF b \in DOMAIN old
                                  THEN [old[b] EXCEPT !.last = ids, !.n = @ + 1]
                                  ELSE [first |-> ids, last |-> ids, n |-> 1])]
  IN  [Log(Provider(EnterComponent(s1))) EXCEPT !.ctx = CallerContext(s1)]

\* Suspense(props), called with its own component context active
Suspense(n, sc, s) ==
  LET renders == (IF flags.streaming THEN 1 ELSE 0) + (IF flags.async THEN 1 ELSE 0)
      Children(e) == After(e, RenderList(n.kids, sc, e))
      Register(id, s1) ==
        IF id \in DOMAIN s1.suspense THEN getCallback(id, s1)
        ELSE [getCallback(id, s1) EXCEPT !.suspense =
                Put(@, id, [completedCount |-> 0, resources |-> {},
                            ctx |-> [s1.ctx EXCEPT !.count = 0], kids |-> n.kids])]
      Run(id, s3) == After(s3, runSuspense(id, s3.ctx, n.kids, s3))
      Signal(id, s4, s5) ==
        IF s4.suspense[id].completedCount = Cardinality(s4.suspense[id].resources)
        THEN [After(s5, done(id, <<>>, s5)) EXCEPT !.ret = s4.ret]
        ELSE [s5 EXCEPT !.ret = Token(id)]
      Finish(id, s4) ==
        Signal(id, s4,
               [s4 EXCEPT !.hist.suspCalls =
                            @ \cup {[renders |-> renders, fallback |-> FALSE]},
                          !.hist.top = IF sc = NoBoundary THEN @ \cup {id} ELSE @])
      Rest(s1) ==
        IF ~flags.async
        THEN [s1 EXCEPT !.ret = n.out,
                        !.hist.suspCalls =
                          @ \cup {[renders |-> renders, fallback |-> TRUE]}]
        ELSE LET id == s1.ctx.id \o Digits(s1.ctx.count)
             IN  Finish(id, Run(id, Register(id, s1)))
  IN  IF flags.streaming
      THEN Rest([Children(EnterComponent(s)) EXCEPT !.ctx = CallerContext(s)])
      ELSE Rest(s)

\* one child of a component, rendered with nearest boundary sc
RenderNode(n, sc, s) ==
  LET Children(e) == After(e, RenderList(n.kids, sc, e))
      Boundary(e) == After(e, Suspense(n, sc, e))
  IN  CASE n.k = "text" -> [s EXCEPT !.ret = n.out]
        [] n.k = "res"  -> ResourceNode(n, sc, s)
        [] n.k = "lazy" -> LazyNode(n, sc, s)
        [] n.k = "comp" -> [Children(EnterComponent(s)) EXCEPT !.ctx = CallerContext(s)]
        [] n.k = "susp" -> [Boundary(EnterComponent(s)) EXCEPT !.ctx = CallerContext(s)]

\* the children of a component in order; resolveSSRNode joins their markup
RenderList(ns, sc, s) ==
  LET Join(a, b) == [b EXCEPT !.ret = a.ret \o b.ret]
      Rest(a) == After(a, Join(a, RenderList(Tail(ns), sc, a)))
  IN  IF ns = <<>> THEN [s EXCEPT !.ret = <<>>]
      ELSE Rest(RenderNode(Head(ns), sc, s))

\* value.completed() of boundary b
completed(b, s) ==
  LET Stale(r) == \E e \in r.hist.stale : e.b = b
      Signal(r) ==
        IF r.suspense[b].completedCount = Cardinality(r.suspense[b].resources)
        THEN After(r, done(b, r.ret,
                           [r EXCEPT !.hist.doneStale = IF Stale(r) THEN @ \cup {b} ELSE @]))
        ELSE r
  IN  Signal(runSuspense(b, s.suspense[b].ctx, s.suspense[b].kids,
                         [s EXCEPT !.hist.stale = {}]))

RECURSIVE NotifyContexts(_, _)
\* for (const c of contexts) if (++c.completedCount === c.resources.size) c.completed()
NotifyContexts(cs, s) ==
  LET Notify(c, s1) ==
        IF s1.suspense[c].completedCount = Cardinality(s1.suspense[c].resources)
        THEN NotifyContexts(Tail(cs), completed(c, s1))
        ELSE NotifyContexts(Tail(cs), s1)
  IN  IF cs = <<>> THEN s
      ELSE Notify(Head(cs), [s EXCEPT !.suspense[Head(cs)].completedCount = @ + 1])

\* a handler that leaves the registrations in place
KeepContexts(cs) == cs

\* contexts.clear()
ClearContexts(cs) == <<>>

\* the count of increments per boundary and instance, after one more for each of cs
Increments(m, cs, inst) ==
  LET K == {[b |-> cs[i], inst |-> inst] : i \in 1..Len(cs)}
  IN  [x \in (DOMAIN m) \cup K |->
         (IF x \in DOMAIN m THEN m[x] ELSE 0) + (IF x \in K THEN 1 ELSE 0)]

\* the handler load attached with p.then, run with the resolved value
LoadHandler(p, s) ==
  LET Notify(s1) == After(s1, NotifyContexts(s1.insts[p.inst].contexts, s1))
  IN  [Notify([s EXCEPT !.resources = Put(@, p.rid, p.val),
                        !.hist.writes = Put(@, p.rid,
                                            IF p.rid \in DOMAIN @ THEN @[p.rid] + 1 ELSE 1),
                        !.hist.increments =
                           Increments(@, s.insts[p.inst].contexts, p.inst)])
        EXCEPT !.insts[p.inst].contexts = ClearContexts(@)]

\* the lazy loader's place among the instances whose increments are counted
LazyInst == 0

RECURSIVE LazyHandlers(_, _)
\* the k handlers the wrapper attached with p.then, run in order
LazyHandlers(k, s) ==
  IF k = 0 THEN s
  ELSE LET s1 == NotifyContexts(s.lazy.contexts,
                                [s EXCEPT !.hist.lazyNotified = TRUE,
                                          !.hist.increments =
                                             Increments(@, s.lazy.contexts, LazyInst)])
       IN  LazyHandlers(k - 1, [s1 EXCEPT !.lazy.contexts = <<>>])

----------------------------------------------------------------------------
(* The render pass as a state machine *)

\* the context object a render starts from; pass tells which render's
\* resources and suspense maps the object carries
RootContext == [id |-> <<>>, count |-> 0, pass |-> 1]

NoHistory ==
  [trace |-> <<>>, runs |-> EmptyMap, done |-> EmptyMap, doneFanIn |-> TRUE,
   suspCalls |-> {}, loads |-> {}, written |-> {}, writes |-> EmptyMap,
   passes |-> 0, miss |-> FALSE, syncPending |-> {}, top |-> {}, immediate |-> {},
   lazyCalls |-> {}, stale |-> {}, countedStale |-> FALSE, doneStale |-> {},
   lazyNotified |-> FALSE, registered |-> {}, increments |-> EmptyMap,
   foreign |-> FALSE, crossed |-> FALSE]

\* the state the operations of one turn start from
State ==
  [ctx |-> sharedConfig, resources |-> resources, suspense |-> suspense,
   insts |-> insts, promises |-> promises, lazy |-> lazyState,
   registry |-> registry, cache |-> cache, micro |-> micro,
   hist |-> [hist EXCEPT !.trace = <<>>, !.stale = {}], ret |-> <<>>, self |-> 1]

\* the state the operations of one turn leave behind
Commit(s) ==
  /\ sharedConfig' = s.ctx
  /\ resources' = s.resources
  /\ suspense' = s.suspense
  /\ insts' = s.insts
  /\ promises' = s.promises
  /\ lazyState' = s.lazy
  /\ registry' = s.registry
  /\ cache' = s.cache
  /\ micro' = s.micro
  /\ hist' = s.hist

Modes ==
  {f \in [async : BOOLEAN, streaming : BOOLEAN, writeResource : BOOLEAN] :
     f.writeResource => f.streaming}

\* no second render
NoOther == <<>>

\* nothing rendered yet by the first render
QuietPass ==
  /\ phase = "idle"
  /\ sharedConfig = RootContext
  /\ resources = EmptyMap
  /\ suspense = EmptyMap
  /\ insts = <<>>
  /\ promises = <<>>
  /\ lazyState = [resolved |-> FALSE, contexts |-> <<>>, handlers |-> 0]
  /\ registry = {}
  /\ cache = EmptyMap
  /\ micro = 0
  /\ res = <<>>
  /\ driver = [resolved |-> FALSE, value |-> <<>>]
  /\ hist = NoHistory
  /\ callers = <<>>
  /\ spawned = <<>>

Quiet == QuietPass /\ other = NoOther

Init ==
  /\ tree \in Trees
  /\ flags \in Modes
  /\ Quiet

\* awaitSuspense(fn)(): the synchronous pass, then resolve(res()) if nothing registered
AwaitSuspenseFrom(s0) ==
  LET Pass(r) ==
        /\ Commit([r EXCEPT !.hist.syncPending = r.registry])
        /\ res' = r.ret
        /\ driver' = IF r.registry = {} THEN [resolved |-> TRUE, value |-> r.ret]
                     ELSE driver
  IN  /\ phase = "idle"
      /\ Pass(RenderList(tree, NoBoundary, s0))
      /\ phase' = "rendered"
      /\ UNCHANGED <<tree, flags, callers, spawned, other>>

\* the call with the render's context already active
AwaitSuspense == AwaitSuspenseFrom(State)

\* a pending producer promise resolves and its handler runs
ResolvePromise ==
  \E i \in 1..Len(promises) :
    /\ promises[i].pending
    /\ Commit(LoadHandler(promises[i], [State EXCEPT !.promises[i].pending = FALSE]))
    /\ UNCHANGED <<tree, flags, phase, res, driver, callers, spawned, other>>

\* a producer fails: its pending promise rejects, as does every promise it made or
\* will make for the same resource; p.then(handler) runs nothing on rejection
RejectPromise ==
  \E i \in 1..Len(promises) :
    /\ \A j \in 1..Len(promises) : promises[j].rid = promises[i].rid => promises[j].pending
    /\ promises' = [j \in 1..Len(promises) |->
                      IF promises[j].rid = promises[i].rid
                      THEN [promises[j] EXCEPT !.pending = FALSE, !.rejected = TRUE]
                      ELSE promises[j]]
    /\ UNCHANGED <<tree, flags, phase, sharedConfig, resources, suspense, insts, lazyState,
                   registry, cache, micro, res, driver, hist, callers, spawned, other>>

\* the lazy loader's promise resolves: `resolved` is set, then the handlers run
ResolveLazy ==
  /\ UsesLazy(tree)
  /\ ~lazyState.resolved
  /\ LET s == [State EXCEPT !.lazy.resolved = TRUE]
     IN  Commit(LazyHandlers(s.lazy.handlers, s))
  /\ UNCHANGED <<tree, flags, phase, res, driver, callers, spawned, other>>

\* the microtask done queued: the substitution pass and resolve(final + source)
RunMicrotask ==
  /\ micro > 0
  /\ micro' = micro - 1
  /\ driver' = IF driver.resolved THEN driver
               ELSE [resolved |-> TRUE, value |-> SubstLoop(<<>>, res, cache)]
  /\ hist' = [hist EXCEPT !.passes = @ + 1, !.miss = @ \/ SubstMisses(res, cache)]
  /\ UNCHANGED <<tree, flags, phase, sharedConfig, resources, suspense, insts, promises,
                 lazyState, registry, cache, res, callers, spawned, other>>

Next == AwaitSuspense \/ ResolvePromise \/ RejectPromise \/ ResolveLazy \/ RunMicrotask

Spec == Init /\ [][Next]_vars

----------------------------------------------------------------------------
(* The substitution pass on its own: root strings and caches drawn from bounded sets *)

SubstIds == << <<"0", ".", "0">>, <<"1", ".", "0">> >>

\* strings of at most n segments over the symbols syms
SegSeqs(syms, n) == UNION {[1..k -> syms] : k \in 0..n}

RECURSIVE Serialize(_)
\* the string a list of segments stands for: "a" is text, "t1" and "t2" are tokens
Serialize(q) ==
  IF q = <<>> THEN <<>>
  ELSE (CASE Head(q) = "t1" -> Token(SubstIds[1])
          [] Head(q) = "t2" -> Token(SubstIds[2])
          [] OTHER -> <<Head(q)>>) \o Serialize(Tail(q))

\* a cache holding the fragments f1, f2 for the two ids; <<"-">> leaves the id out
CacheOf(f1, f2) ==
  LET ids == {i \in 1..2 : (IF i = 1 THEN f1 ELSE f2) # <<"-">>}
  IN  [id \in {SubstIds[i] : i \in ids} |->
         IF id = SubstIds[1] THEN Serialize(f1) ELSE Serialize(f2)]

AsyncOnly == [async |-> TRUE, streaming |-> FALSE, writeResource |-> FALSE]

\* a driver whose registry has just emptied, with some root string and cache;
\* a fragment only holds tokens of later ids, as ids nest in a render
SubstInit ==
  /\ \E root \in SegSeqs({"a", "t1", "t2"}, MaxRootSegs),
        f1 \in SegSeqs({"a", "t2"}, MaxFragSegs) \cup {<<"-">>},
        f2 \in SegSeqs({"a"}, MaxFragSegs) \cup {<<"-">>} :
       /\ res = Serialize(root)
       /\ cache = CacheOf(f1, f2)
  /\ tree = <<>>
  /\ flags = AsyncOnly
  /\ phase = "rendered"
  /\ micro = 1
  /\ sharedConfig = RootContext
  /\ resources = EmptyMap
  /\ suspense = EmptyMap
  /\ insts = <<>>
  /\ promises = <<>>
  /\ lazyState = [resolved |-> FALSE, contexts |-> <<>>, handlers |-> 0]
  /\ registry = {}
  /\ driver = [resolved |-> FALSE, value |-> <<>>]
  /\ hist = NoHistory
  /\ callers = <<>>
  /\ spawned = <<>>
  /\ other = NoOther

SpecSubst == SubstInit /\ [][RunMicrotask]_vars

----------------------------------------------------------------------------
(* createComponent step by step: the active context across calls, returns and throws *)

CtxInit ==
  /\ tree = <<>>
  /\ flags = AsyncOnly
  /\ Quiet

\* createComponent up to the call of Comp: c is saved, the child context is set
CtxCall ==
  /\ Len(callers) < MaxDepth
  /\ Len(spawned) < MaxSpawns
  /\ sharedConfig.count < MaxCount
  /\ LET n == nextHydrateContext(sharedConfig)
     IN  /\ callers' = Append(callers, n.parent)
         /\ sharedConfig' = n.child
         /\ spawned' = Append(spawned, [parent |-> sharedConfig, child |-> n.child,
                                        after |-> n.parent])
  /\ UNCHANGED <<tree, flags, phase, resources, suspense, insts, promises, lazyState,
                 registry, cache, micro, res, driver, hist, other>>

\* Comp returned: setHydrateContext(c)
CtxReturn ==
  /\ callers # <<>>
  /\ sharedConfig' = callers[Len(callers)]
  /\ callers' = SubSeq(callers, 1, Len(callers) - 1)
  /\ UNCHANGED <<tree, flags, phase, resources, suspense, insts, promises, lazyState,
                 registry, cache, micro, res, driver, hist, spawned, other>>

\* Comp threw: createComponent is left without reaching setHydrateContext(c),
\* and the caller's code catches the exception
CtxThrow ==
  /\ callers # <<>>
  /\ callers' = SubSeq(callers, 1, Len(callers) - 1)
  /\ UNCHANGED <<tree, flags, phase, sharedConfig, resources, suspense, insts, promises,
                 lazyState, registry, cache, micro, res, driver, hist, spawned, other>>

\* createResource or a lazy wrapper draws an id from the active context: count++
CtxAllocate ==
  /\ sharedConfig.count < MaxCount
  /\ sharedConfig' = [sharedConfig EXCEPT !.count = @ + 1]
  /\ UNCHANGED <<tree, flags, phase, resources, suspense, insts, promises, lazyState,
                 registry, cache, micro, res, driver, hist, callers, spawned, other>>

CtxNext == CtxCall \/ CtxReturn \/ CtxThrow \/ CtxAllocate

SpecCtx == CtxInit /\ [][CtxNext]_vars

----------------------------------------------------------------------------
(* Two renders in flight in one process.  Each awaitSuspense call has its own   *)
(* registry, cache and promise, each render its own hydration context object   *)
(* (resources and suspense maps) and owner; sharedConfig.context is the one    *)
(* slot they share.  The second render's state is the record `other`.          *)

\* the root context object the caller of render p installs before the pass
RootContextOf(p) == [RootContext EXCEPT !.pass = p]

\* thunks with one boundary, two sibling boundaries, and a nested boundary
TwoTrees(a, b) ==
  { <<Susp(<<Res(<<a>>)>>)>>,
    <<Susp(<<Res(<<a>>)>>), Susp(<<Res(<<b>>)>>)>>,
    <<Susp(<<Res(<<a>>), Susp(<<Res(<<b>>)>>)>>)>> }

TwoInit ==
  /\ tree \in TwoTrees("x", "y")
  /\ flags = AsyncOnly
  /\ QuietPass
  /\ \E t \in TwoTrees("p", "q") :
       other = [tree |-> t, phase |-> "idle", resources |-> EmptyMap,
                suspense |-> EmptyMap, insts |-> <<>>, promises |-> <<>>,
                registry |-> {}, cache |-> EmptyMap, micro |-> 0, res |-> <<>>,
                driver |-> [resolved |-> FALSE, value |-> <<>>], hist |-> NoHistory]

\* the state an operation of the second render starts from: its own maps and
\* closures, and whatever context is active
OtherState ==
  [ctx |-> sharedConfig, resources |-> other.resources, suspense |-> other.suspense,
   insts |-> other.insts, promises |-> other.promises, lazy |-> lazyState,
   registry |-> other.registry, cache |-> other.cache, micro |-> other.micro,
   hist |-> [other.hist EXCEPT !.trace = <<>>, !.stale = {}], ret |-> <<>>, self |-> 2]

\* the state an operation of the second render leaves behind
CommitOther(s, ph, r, d) ==
  /\ sharedConfig' = s.ctx
  /\ lazyState' = s.lazy
  /\ other' = [other EXCEPT !.phase = ph, !.res = r, !.driver = d,
                            !.resources = s.resources, !.suspense = s.suspense,
                            !.insts = s.insts, !.promises = s.promises,
                            !.registry = s.registry, !.cache = s.cache,
                            !.micro = s.micro, !.hist = s.hist]
  /\ UNCHANGED <<tree, flags, phase, resources, suspense, insts, promises, registry,
                 cache, micro, res, driver, hist, callers, spawned>>

\* the first render: its caller installs its root context, then awaitSuspense(fn)()
Render1 == AwaitSuspenseFrom([State EXCEPT !.ctx = RootContextOf(1)])

\* the second render: its caller installs its root context, then awaitSuspense(fn)()
Render2 ==
  LET Pass(r) ==
        CommitOther([r EXCEPT !.hist.syncPending = r.registry], "rendered", r.ret,
                    IF r.registry = {} THEN [resolved |-> TRUE, value |-> r.ret]
                    ELSE other.driver)
  IN  /\ other.phase = "idle"
      /\ Pass(RenderList(other.tree, NoBoundary,
                         [OtherState EXCEPT !.ctx = RootContextOf(2)]))

\* a pending producer promise of the second render resolves and its handler runs
Resolve2 ==
  \E i \in 1..Len(other.promises) :
    /\ other.promises[i].pending
    /\ CommitOther(LoadHandler(other.promises[i],
                               [OtherState EXCEPT !.promises[i].pending = FALSE]),
                   other.phase, other.res, other.driver)

\* the microtask the second driver's done queued
Microtask2 ==
  /\ other.micro > 0
  /\ other' = [other EXCEPT
                 !.micro = @ - 1,
                 !.driver = IF @.resolved THEN @
                            ELSE [resolved |-> TRUE,
                                  value |-> SubstLoop(<<>>, other.res, other.cache)],
                 !.hist.passes = @ + 1,
                 !.hist.miss = @ \/ SubstMisses(other.res, other.cache)]
  /\ UNCHANGED <<tree, flags, phase, sharedConfig, resources, suspense, insts, promises,
                 lazyState, registry, cache, micro, res, driver, hist, callers, spawned>>

TwoNext ==
  Render1 \/ ResolvePromise \/ RunMicrotask \/ Render2 \/ Resolve2 \/ Microtask2

SpecTwo == TwoInit /\ [][TwoNext]_vars

----------------------------------------------------------------------------
(* Properties *)

\* every producer promise and the lazy load have resolved and no pass is queued
Settled ==
  /\ \A i \in 1..Len(promises) : ~promises[i].pending /\ ~promises[i].rejected
  /\ UsesLazy(tree) => lazyState.resolved
  /\ micro = 0

\* C1: the substitution pass never looks up a boundary id that has no cache
\* entry: it only runs once every registered boundary has delivered its fragment
C1_SubstitutionFindsEveryFragment == ~hist.miss

\* C2: in an async pass, once every producer promise and lazy load has resolved
\* and every queued pass has run, the driver's promise is resolved with a string
\* that holds no placeholder token
C2_DriverResolves ==
  (flags = AsyncOnly /\ phase = "rendered" /\ Settled)
    => (driver.resolved /\ ~HasToken(driver.value))

\* C3: when two or more sibling boundaries are all pending after the synchronous
\* pass, the string the driver resolves with is, whatever the order of the
\* resolutions, the markup with each boundary's resolved fragment in its place
C3_OrderIndependent ==
  (flags = AsyncOnly /\ driver.resolved
     /\ Cardinality(hist.top) >= 2 /\ hist.top \subseteq hist.syncPending)
    => driver.value = FullRender(tree)

\* C4: done is delivered to the driver only at the fan-in condition
\* completedCount = resources.size, and at most once per boundary id
C4_DoneOncePerBoundary ==
  flags = AsyncOnly =>
    /\ hist.doneFanIn
    /\ \A b \in DOMAIN hist.done : hist.done[b] <= 1

RECURSIVE Closed(_, _)
\* the cache c holds a fragment for every token id reachable from s
Closed(s, c) ==
  LET m == SUSPENSE_REPLACE(s)
  IN  \/ m.index = 0
      \/ /\ m.id \in DOMAIN c
         /\ Closed(c[m.id], c)
         /\ Closed(SubSeq(s, m.last + 1, Len(s)), c)

RECURSIVE Expand(_, _)
\* s with every token replaced, recursively, by its cached fragment
Expand(s, c) ==
  LET m == SUSPENSE_REPLACE(s)
  IN  IF m.index = 0 THEN s
      ELSE SubSeq(s, 1, m.index - 1) \o Expand(c[m.id], c)
             \o Expand(SubSeq(s, m.last + 1, Len(s)), c)

\* C5: with a cache entry for every token id reachable from the root string, the
\* substitution pass ends with a string that holds no token and equals the root
\* with every token recursively replaced by its cached fragment
C5_SubstitutionComplete ==
  (driver.resolved /\ hist.passes = 1 /\ Closed(res, cache))
    => (~HasToken(driver.value) /\ driver.value = Expand(res, cache))

\* a pass over a root with a token whose fragment itself holds a token
C5_Witness ==
  /\ driver.resolved
  /\ hist.passes = 1
  /\ Closed(res, cache)
  /\ HasToken(res)
  /\ HasToken(cache[SUSPENSE_REPLACE(res).id])
  /\ Len(driver.value) > 0

\* C6: every child context has id = parent.id + parent.count + "." and count 0,
\* the parent's counter grows by one per child, and two children of the same
\* context have distinct ids of which neither is a prefix of the other
C6_IdPrefixTree ==
  /\ \A i \in 1..Len(spawned) :
       LET e == spawned[i]
       IN  /\ e.child.id = e.parent.id \o Digits(e.parent.count) \o <<".">>
           /\ e.child.count = 0
           /\ e.after = [e.parent EXCEPT !.count = @ + 1]
  /\ \A i, j \in 1..Len(spawned) :
       (i # j /\ spawned[i].parent.id = spawned[j].parent.id)
         => /\ spawned[i].child.id # spawned[j].child.id
            /\ ~IsPrefix(spawned[i].child.id, spawned[j].child.id)

\* two children of one context whose counters are 1 and 10
C6_Witness ==
  \E i, j \in 1..Len(spawned) :
    /\ spawned[i].parent.id = spawned[j].parent.id
    /\ spawned[i].parent.count = 1
    /\ spawned[j].parent.count = 10

\* C7: every later run of a boundary's children allocates exactly the ids of
\* its first run
C7_RerunAllocatesSameIds ==
  \A b \in DOMAIN hist.runs : hist.runs[b].last = hist.runs[b].first

\* two boundaries have each been run again after their first run
C7_Witness ==
  \E a, b \in DOMAIN hist.runs :
    /\ a # b
    /\ hist.runs[a].n >= 2
    /\ hist.runs[b].n >= 2
    /\ Len(hist.runs[a].first) >= 2

\* C8: whenever createComponent is left, by return or by exception, the active
\* context is again the caller's context
C8_ContextRestored ==
  [][Len(callers') < Len(callers) => sharedConfig' = callers[Len(callers)]]_vars

\* C9: with streaming set, every Suspense call renders its children exactly once
\* and does not return props.fallback
C9_StreamingNoFallback ==
  flags.streaming => \A e \in hist.suspCalls : e.renders = 1 /\ ~e.fallback

\* C10: in an async pass a load whose producer returns an immediate value is
\* resolved at once, and no boundary that registered such a resource is left
\* short of its fan-in condition once nothing is outstanding
C10_ImmediateNeverPending ==
  flags = AsyncOnly =>
    /\ \A l \in hist.loads : l.imm => l.then = "resolved"
    /\ (phase = "rendered" /\ Settled) =>
         \A b \in DOMAIN suspense :
           (suspense[b].resources \cap hist.immediate # {})
             => suspense[b].completedCount >= Cardinality(suspense[b].resources)

\* C11: a lazy wrapper called before the load has resolved returns empty output,
\* registers its id with the nearest boundary and attaches one handler; once the
\* load has resolved it stays resolved, and every later call, at any call site,
\* returns the loaded component's output, registers nothing and attaches nothing
C11_LazyTransition ==
  /\ [](\A e \in hist.lazyCalls :
          IF e.resolved
          THEN e.out = e.component /\ ~e.added /\ e.attached = 0
          ELSE e.out = <<>> /\ (e.bound => e.holds) /\ e.attached = 1)
  /\ [][lazyState.resolved => lazyState'.resolved]_vars

\* the same call site was rendered before the load resolved, registering its id,
\* and again after it
C11_Witness ==
  \E e1, e2 \in hist.lazyCalls :
    /\ e1.id = e2.id
    /\ ~e1.resolved /\ e1.holds
    /\ e2.resolved /\ e2.out = e2.component

\* the ids of the resources whose producer failed
Rejected == {promises[i].rid : i \in {j \in 1..Len(promises) : promises[j].rejected}}

\* C12: for a resource whose producer's promise rejects, no completion handler
\* runs (nothing is stored under its id, no completedCount is incremented for
\* it); a boundary that registered it is never at its fan-in condition, never
\* signals done, and the driver's promise is not resolved
C12_RejectedNeverCompletes ==
  flags.async =>
    \A r \in Rejected :
      /\ r \notin DOMAIN resources
      /\ r \notin DOMAIN hist.writes
      /\ \A b \in DOMAIN suspense :
           r \in suspense[b].resources =>
             /\ suspense[b].completedCount # Cardinality(suspense[b].resources)
             /\ b \notin DOMAIN hist.done
             /\ ~driver.resolved

\* C14: in an async pass, a read or a lazy call made once the completion handler of its resource
\* (or of the lazy load) has started never returns the initial value or empty
\* output, and no fragment that completed passes to done comes from a re-render
\* in which a read or lazy call under that boundary returned unresolved data
C14_RerenderReadsResolved ==
  flags = AsyncOnly => (~hist.countedStale /\ hist.doneStale = {})

\* the promises load made for instance i
PromisesOf(i) == {j \in 1..Len(promises) : promises[j].inst = i}

\* C15: for a resource instance on which load was called more than once with
\* pending producers, the handlers of that instance increment the completedCount
\* of a boundary at most once, and exactly once for every boundary that
\* registered through the instance when all its promises have resolved
C15_OneShotRegistration ==
  \A i \in 1..Len(insts) :
    Cardinality(PromisesOf(i)) >= 2 =>
      /\ \A k \in DOMAIN hist.increments : k.inst = i => hist.increments[k] <= 1
      /\ (\A j \in PromisesOf(i) : ~promises[j].pending /\ ~promises[j].rejected) =>
           \A k \in hist.registered :
             k.inst = i => (k \in DOMAIN hist.increments /\ hist.increments[k] = 1)

\* both promises of a twice-loaded instance have resolved, its boundary had
\* registered through it and has signalled done
C15_Witness ==
  \E i \in 1..Len(insts) :
    /\ Cardinality(PromisesOf(i)) = 2
    /\ \A j \in PromisesOf(i) : ~promises[j].pending /\ ~promises[j].rejected
    /\ \E k \in hist.registered : k.inst = i /\ k.b \in DOMAIN hist.done

\* C16: within one async render pass every id of the resource store is assigned
\* at most once, whatever the loads, resolutions and re-renders
C16_WriteOnceStore ==
  flags = AsyncOnly => \A id \in DOMAIN hist.writes : hist.writes[id] <= 1

\* C17: for one awaitSuspense call no more than one substitution pass is ever
\* queued or run, also when several boundaries complete during the render pass
C17_SingleSubstitution ==
  flags = AsyncOnly => micro + hist.passes <= 1

\* C18: when the string being substituted holds a token whose id has no cache
\* entry, the substitution loop does not terminate and the driver's promise is
\* never resolved
C18_MissingEntryNeverResolves ==
  (hist.passes >= 1 /\ hist.miss) => ~driver.resolved

RECURSIVE ExpandUndefined(_, _)
\* s with every token replaced, recursively, by its cached fragment, or by the
\* text "undefined" where the cache has no entry
ExpandUndefined(s, c) ==
  LET m == SUSPENSE_REPLACE(s)
  IN  IF m.index = 0 THEN s
      ELSE SubSeq(s, 1, m.index - 1)
             \o (IF m.id \in DOMAIN c THEN ExpandUndefined(c[m.id], c) ELSE Undefined)
             \o ExpandUndefined(SubSeq(s, m.last + 1, Len(s)), c)

\* C18 as amended: when the string being substituted holds a token whose id has
\* no cache entry, the loop terminates with that token replaced by the text
\* "undefined", and the driver's promise is resolved with a string without tokens
C18_MissingEntryYieldsUndefined ==
  (hist.passes = 1 /\ hist.miss)
    => /\ driver.resolved
       /\ ~HasToken(driver.value)
       /\ driver.value = ExpandUndefined(res, cache)

\* a pass over a root whose token has a cached fragment holding a token without
\* a cache entry
C18_Witness ==
  /\ hist.passes = 1
  /\ driver.resolved
  /\ HasToken(res)
  /\ SUSPENSE_REPLACE(res).id \in DOMAIN cache
  /\ HasToken(cache[SUSPENSE_REPLACE(res).id])
  /\ SUSPENSE_REPLACE(cache[SUSPENSE_REPLACE(res).id]).id \notin DOMAIN cache

\* C19: in every state of an async render pass, every boundary has
\* 0 <= completedCount <= resources.size
C19_CounterBound ==
  flags = AsyncOnly =>
    \A b \in DOMAIN suspense :
      /\ 0 <= suspense[b].completedCount
      /\ suspense[b].completedCount <= Cardinality(suspense[b].resources)

\* the ids the lazy wrapper registered in boundary b before the load resolved
LazyIds(b) == {e.id : e \in {c \in hist.lazyCalls : ~c.resolved /\ c.bound /\ c.sc = b}}

\* C20: once the lazy load has resolved and its handlers have run, a boundary in
\* which the wrapper registered k >= 1 ids has had completedCount incremented k
\* times by them, and, when it registered nothing else, meets the fan-in
\* condition and has signalled done
C20_LazyFanIn ==
  (flags = AsyncOnly /\ lazyState.resolved) =>
    \A b \in DOMAIN suspense :
      LazyIds(b) # {} =>
        /\ [b |-> b, inst |-> LazyInst] \in DOMAIN hist.increments
        /\ hist.increments[[b |-> b, inst |-> LazyInst]] = Cardinality(LazyIds(b))
        /\ suspense[b].resources = LazyIds(b) =>
             /\ suspense[b].completedCount = Cardinality(suspense[b].resources)
             /\ b \in DOMAIN hist.done

\* the characters of a string
Chars(s) == {s[i] : i \in 1..Len(s)}

\* C13: with two renders in flight and their resolutions interleaved, a re-render
\* never runs under the other render's context, a boundary's completion changes
\* only the registry and cache of its own driver, and each driver's cache and
\* final string hold only markup of its own render
C13_DriverIsolation ==
  /\ [](/\ ~hist.foreign
        /\ ~other.hist.foreign
        /\ \A b \in DOMAIN cache : Chars(cache[b]) \cap {"p", "q"} = {}
        /\ \A b \in DOMAIN other.cache : Chars(other.cache[b]) \cap {"x", "y"} = {}
        /\ driver.resolved => Chars(driver.value) \cap {"p", "q"} = {}
        /\ other.driver.resolved => Chars(other.driver.value) \cap {"x", "y"} = {})
  /\ [][/\ (\E b \in DOMAIN hist.done' : b \notin DOMAIN hist.done \/ hist.done'[b] # hist.done[b])
            => (other.registry' = other.registry /\ DOMAIN other.cache' = DOMAIN other.cache)
        /\ (\E b \in DOMAIN other.hist.done' :
              b \notin DOMAIN other.hist.done \/ other.hist.done'[b] # other.hist.done[b])
            => (registry' = registry /\ DOMAIN cache' = DOMAIN cache)]_vars

\* both drivers have resolved with markup of their own render after each render
\* re-rendered a boundary while the other render's context was the active one
C13_Witness ==
  /\ hist.crossed
  /\ other.hist.crossed
  /\ driver.resolved /\ "x" \in Chars(driver.value)
  /\ other.driver.resolved /\ "p" \in Chars(other.driver.value)

====
